---- MODULE Spec2Model ----
(***************************************************************************)
(* Model of the tmc4671-rs driver (src/src/lib.rs): the 5-octet SPI        *)
(* datagram codec (spi::Datagram::bytes / spi::Datagram::parse) and the    *)
(* register transaction engine (Tmc4671::read_register, write_register,    *)
(* get_chip_info over transfer_datagram).                                  *)
(*                                                                         *)
(* Two specifications:                                                     *)
(*   SpecCodec  applies the codec functions to bounded sets of inputs;     *)
(*   Spec       runs the engine against a transport that may fail, leave   *)
(*              arbitrary bytes in the buffer, or be answered by a device  *)
(*              with a chip-info selector register.                        *)
(***************************************************************************)
EXTENDS Integers, Sequences, FiniteSets, TLC

VARIABLES
    codecOp,     \* which codec function was applied last ("none" initially)
    codecArg,    \* its argument: a Datagram (bytes, roundtrip) or a buffer
    codecOut,    \* [u8; 5] returned by Datagram::bytes
    codecRes,    \* IResult returned by Datagram::parse
    pc,          \* engine position: "idle", "transfer" (blocked in
                 \* spi_device.transfer_in_place), "done" (call returning)
    call,        \* the public call in progress / last returned
    stage,       \* which register operation of the call is in flight
    datagram,    \* transfer_datagram's parameter `datagram`
    buffer,      \* transfer_datagram's local `buffer`
    exchanges,   \* transport exchanges performed by the current call
    result,      \* the call's return value
    devSel,      \* device: content of its chip-info selector register
    intruder     \* second bus user: selector write between the two
                 \* exchanges of the current get_chip_info

codecVars == <<codecOp, codecArg, codecOut, codecRes>>
engineVars == <<pc, call, stage, datagram, buffer, exchanges, result, devSel, intruder>>
vars == <<codecOp, codecArg, codecOut, codecRes,
          pc, call, stage, datagram, buffer, exchanges, result, devSel, intruder>>

----------------------------------------------------------------------------
(* Bounds of the model *)

\* longest input buffer handed to Datagram::parse
MaxBufLen == 6

\* octet values used to fill parse inputs and arbitrary transport replies
ByteSamples == {0, 1, 127, 128, 255}

\* 32-bit payload values: 0, 1, 0x01020304, 0x41424344, 0xFFFFFFFF
Payloads == { [hi |-> 0, lo |-> 0], [hi |-> 0, lo |-> 1], [hi |-> 258, lo |-> 772],
              [hi |-> 16706, lo |-> 17220], [hi |-> 65535, lo |-> 65535] }

\* values of the Datagram struct's `address: u8` field
Addresses == 0 .. 255

\* values of the engine's public `register: u8` parameter: the ends of the
\* 7-bit and 8-bit ranges, every single-bit value and the chip-info registers
Registers == {0, 1, 2, 3, 4, 8, 16, 32, 64, 85, 124, 125, 126, 127,
              128, 129, 130, 170, 192, 213, 253, 254, 255}

----------------------------------------------------------------------------
(* Machine integers.  A u32 is held as its two 16-bit halves, [hi, lo],    *)
(* of value hi * 2^16 + lo: the model checker's integers are narrower than *)
(* 32 bits.                                                                *)

\* the u32 of value hi * 2^16 + lo
U32(hi, lo) == [hi |-> hi, lo |-> lo]

\* `n as u32` for a small n
AsU32(n) == U32(n \div 65536, n % 65536)

RECURSIVE BitAndN(_, _, _)
\* bitwise AND of two naturals over their n low bits
BitAndN(a, b, n) ==
    IF n = 0 THEN 0
    ELSE (IF a % 2 = 1 /\ b % 2 = 1 THEN 1 ELSE 0)
         + 2 * BitAndN(a \div 2, b \div 2, n - 1)

RECURSIVE BitOrN(_, _, _)
\* bitwise OR of two naturals over their n low bits
BitOrN(a, b, n) ==
    IF n = 0 THEN 0
    ELSE (IF a % 2 = 1 \/ b % 2 = 1 THEN 1 ELSE 0)
         + 2 * BitOrN(a \div 2, b \div 2, n - 1)

\* u8 & u8
And8(a, b) == BitAndN(a, b, 8)
\* u8 | u8
Or8(a, b) == BitOrN(a, b, 8)
\* !u8
Not8(a) == 255 - a

----------------------------------------------------------------------------
(* spi::Datagram codec *)

ADDR_WRITE_BIT == 128

Datagram(w, a, d) == [write_not_read |-> w, address |-> a, data |-> d]

\* mutant: little-endian byte order
to_le_bytes(d) ==
    << d.lo % 256, d.lo \div 256, d.hi % 256, d.hi \div 256 >>

\* u32::to_be_bytes
to_be_bytes(d) ==
    << d.hi \div 256, d.hi % 256, d.lo \div 256, d.lo % 256 >>

\* mutant: the write bit is or-ed in whatever the direction
bytes_always_write(dg) ==
    << Or8(dg.address, ADDR_WRITE_BIT) >> \o to_be_bytes(dg.data)

\* Datagram::bytes
bytes(dg) ==
    LET out0 == IF dg.write_not_read
                THEN Or8(dg.address, ADDR_WRITE_BIT)
                ELSE dg.address
    IN  << out0 >> \o to_be_bytes(dg.data)

Incomplete == [ok |-> FALSE, err |-> "Incomplete"]

\* nom::number::streaming::u8
nom_u8(input) ==
    IF Len(input) < 1 THEN Incomplete
    ELSE [ok |-> TRUE, tail |-> Tail(input), value |-> Head(input)]

\* nom::number::streaming::be_u32
nom_be_u32(input) ==
    IF Len(input) < 4 THEN Incomplete
    ELSE [ok |-> TRUE,
          tail |-> SubSeq(input, 5, Len(input)),
          value |-> U32(input[1] * 256 + input[2], input[3] * 256 + input[4])]

\* mutant: the address keeps the direction bit
parse_no_mask(input) ==
    LET h == nom_u8(input) IN
    IF ~h.ok THEN Incomplete
    ELSE LET d == nom_be_u32(h.tail) IN
         IF ~d.ok THEN Incomplete
         ELSE [ok |-> TRUE, tail |-> d.tail,
               datagram |-> Datagram(And8(h.value, ADDR_WRITE_BIT) # 0,
                                     h.value, d.value)]

\* mutant: the payload is read from the last four octets of the input
parse_from_end(input) ==
    LET h == nom_u8(input) IN
    IF ~h.ok THEN Incomplete
    ELSE LET d == nom_be_u32(SubSeq(input, Len(input) - 3, Len(input))) IN
         IF Len(input) < 5 THEN Incomplete
         ELSE [ok |-> TRUE, tail |-> SubSeq(input, 6, Len(input)),
               datagram |-> Datagram(And8(h.value, ADDR_WRITE_BIT) # 0,
                                     And8(h.value, Not8(ADDR_WRITE_BIT)),
                                     d.value)]

\* Datagram::parse
parse(input) ==
    LET h == nom_u8(input) IN
    IF ~h.ok THEN Incomplete
    ELSE LET d == nom_be_u32(h.tail) IN
         IF ~d.ok THEN Incomplete
         ELSE [ok |-> TRUE, tail |-> d.tail,
               datagram |-> Datagram(And8(h.value, ADDR_WRITE_BIT) # 0,
                                     And8(h.value, Not8(ADDR_WRITE_BIT)),
                                     d.value)]

----------------------------------------------------------------------------
(* Inputs of the codec specification *)

RECURSIVE SeqsOfLen(_, _)
SeqsOfLen(S, n) ==
    IF n = 0 THEN { <<>> }
    ELSE { <<x>> \o s : x \in S, s \in SeqsOfLen(S, n - 1) }

\* input buffers for Datagram::parse: every length 0 .. MaxBufLen
Buffers == UNION { SeqsOfLen(ByteSamples, n) : n \in 0 .. MaxBufLen }

\* values of the Datagram struct (address: u8, so 0 .. 255)
Datagrams == { Datagram(w, a, d) : w \in BOOLEAN, a \in Addresses, d \in Payloads }

NoDatagram == Datagram(FALSE, 0, AsU32(0))

CodecInit ==
    /\ codecOp = "none"
    /\ codecArg = <<>>
    /\ codecOut = <<>>
    /\ codecRes = Incomplete

\* a caller applies Datagram::bytes
CallBytes ==
    /\ codecOp = "none"
    /\ \E dg \in Datagrams :
        /\ codecOp' = "bytes"
        /\ codecArg' = dg
        /\ codecOut' = bytes(dg)
        /\ codecRes' = Incomplete

\* a caller applies Datagram::parse to a buffer
CallParse ==
    /\ codecOp = "none"
    /\ \E b \in Buffers :
        /\ codecOp' = "parse"
        /\ codecArg' = b
        /\ codecOut' = <<>>
        /\ codecRes' = parse(b)

\* a caller applies Datagram::parse to the output of Datagram::bytes
CallRoundTrip ==
    /\ codecOp = "none"
    /\ \E dg \in Datagrams :
        /\ codecOp' = "roundtrip"
        /\ codecArg' = dg
        /\ codecOut' = bytes(dg)
        /\ codecRes' = parse(bytes(dg))

\* the caller drops the values; the codec functions keep no state
CodecReset ==
    /\ codecOp # "none"
    /\ codecOp' = "none"
    /\ codecArg' = <<>>
    /\ codecOut' = <<>>
    /\ codecRes' = Incomplete

CodecNext == CallBytes \/ CallParse \/ CallRoundTrip \/ CodecReset

----------------------------------------------------------------------------
(* spi::registers and spi::constants::CHIP_INFO_ADDRESS *)

CHIPINFO_DATA == 0
CHIPINFO_ADDR == 1

SI_TYPE == 0
SI_VERSION == 1
SI_DATE == 2
SI_TIME == 3
SI_VARIANT == 4
SI_BUIlD == 5

CHIP_INFO_ADDRESS == {SI_TYPE, SI_VERSION, SI_DATE, SI_TIME, SI_VARIANT, SI_BUIlD}

----------------------------------------------------------------------------
(* Transport and device: the environment of the engine *)

\* embedded_hal::spi::ErrorKind, as returned by err.kind()
ErrorKinds == {"Overrun", "ModeFault", "FrameFormat", "ChipSelectFault", "Other"}

\* outcome of spi_device.transfer_in_place(&mut buffer): the buffer is a
\* [u8; 5], so a successful exchange leaves exactly 5 octets in it
SpiOk(b) == [ok |-> TRUE, buf |-> b, kind |-> "none"]
SpiErr(k) == [ok |-> FALSE, buf |-> <<>>, kind |-> k]

\* replies an arbitrary transport can leave in the buffer
ArbitraryReplies ==
    { <<h>> \o to_be_bytes(d) : h \in ByteSamples, d \in Payloads }

\* the device's value of the data register for each selector
DeviceValue(sel) ==
    CASE sel = AsU32(SI_TYPE)    -> U32(16706, 17220)
      [] sel = AsU32(SI_VERSION) -> U32(1, 0)
      [] sel = AsU32(SI_DATE)    -> U32(8210, 4661)
      [] sel = AsU32(SI_TIME)    -> U32(18, 13398)
      [] sel = AsU32(SI_VARIANT) -> U32(0, 7)
      [] sel = AsU32(SI_BUIlD)   -> U32(4660, 22136)
      [] OTHER                   -> U32(0, 0)

\* the device's answer to the 5 octets clocked out, and its next selector:
\* a write to CHIPINFO_ADDR stores the selector, a read of CHIPINFO_DATA is
\* answered with the value for the stored selector
DeviceReply(out, sel) ==
    LET head == out[1]
        isWrite == head >= 128
        addr == head % 128
    IN  IF isWrite
        THEN << head, out[2], out[3], out[4], out[5] >>
        ELSE IF addr = CHIPINFO_DATA
             THEN << head >> \o to_be_bytes(DeviceValue(sel))
             ELSE IF addr = CHIPINFO_ADDR
                  THEN << head >> \o to_be_bytes(sel)
                  ELSE << head, 0, 0, 0, 0 >>

DeviceNextSel(out, sel) ==
    LET head == out[1]
        data == U32(out[2] * 256 + out[3], out[4] * 256 + out[5])
    IN  IF head >= 128 /\ head % 128 = CHIPINFO_ADDR THEN data ELSE sel

----------------------------------------------------------------------------
(* Tmc4671 engine *)

NoValue == U32(0, 0)
NoResult == [kind |-> "none", value |-> NoValue, err |-> "none"]
Ok(v) == [kind |-> "ok", value |-> v, err |-> "none"]
CommunicationError(k) == [kind |-> "CommunicationError", value |-> NoValue, err |-> k]
ParseError == [kind |-> "ParseError", value |-> NoValue, err |-> "none"]
\* nom::Finish::finish panics on Err(Incomplete)
Panic == [kind |-> "panic", value |-> NoValue, err |-> "none"]

NoCall == [op |-> "none", register |-> 0, data |-> NoValue]
NoIntruder == [seen |-> FALSE, sel |-> SI_TYPE]

\* the Datagram read_register builds
read_datagram(register) == Datagram(FALSE, register, AsU32(0))

\* the Datagram write_register builds
write_datagram(register, data) == Datagram(TRUE, register, data)

\* nom::Finish::finish on an IResult: Ok, Err (Error, Failure) or a panic
\* (Incomplete)
finish(p) ==
    IF p.ok THEN "Ok" ELSE IF p.err = "Incomplete" THEN "panic" ELSE "Err"

\* mutant: the disabled debug_assert_eq!(datagram.address,
\* received_datagram.address) is enabled
transfer_datagram_asserting(dg, spi) ==
    IF ~spi.ok
    THEN [res |-> CommunicationError(spi.kind), datagram |-> NoDatagram]
    ELSE LET p == parse(spi.buf) IN
         CASE finish(p) = "Ok" /\ p.datagram.address = dg.address ->
                  [res |-> Ok(NoValue), datagram |-> p.datagram]
           [] finish(p) = "Ok" /\ p.datagram.address # dg.address ->
                  [res |-> Panic, datagram |-> NoDatagram]
           [] finish(p) = "Err" ->
                  [res |-> ParseError, datagram |-> NoDatagram]
           [] OTHER ->
                  [res |-> Panic, datagram |-> NoDatagram]

\* transfer_datagram(datagram) after transfer_in_place returned `spi`:
\* the Result (res) and, when it is Ok, the received datagram
transfer_datagram(dg, spi) ==
    IF ~spi.ok
    THEN [res |-> CommunicationError(spi.kind), datagram |-> NoDatagram]
    ELSE LET p == parse(spi.buf) IN
         CASE finish(p) = "Ok" ->
                  [res |-> Ok(NoValue), datagram |-> p.datagram]
           [] finish(p) = "Err" ->
                  [res |-> ParseError, datagram |-> NoDatagram]
           [] OTHER ->
                  [res |-> Panic, datagram |-> NoDatagram]

\* mutant: only the low half of the received data is returned
read_register_return_low(td) ==
    IF td.res.kind = "ok" THEN Ok(U32(0, td.datagram.data.lo)) ELSE td.res

\* read_register's return value, given what transfer_datagram returned
read_register_return(td) ==
    IF td.res.kind = "ok" THEN Ok(td.datagram.data) ELSE td.res

\* mutant: the received data leaks into the result
write_register_return_data(td) ==
    IF td.res.kind = "ok" THEN Ok(td.datagram.data) ELSE td.res

\* write_register's return value, given what transfer_datagram returned
write_register_return(td) ==
    IF td.res.kind = "ok" THEN Ok(NoValue) ELSE td.res

\* mutant: the result of write_register is ignored
get_chip_info_reads_anyway(w) == TRUE

\* get_chip_info after write_register returned `w`: the `?` returns the
\* error, success goes on to read_register(CHIPINFO_DATA)
get_chip_info_reads(w) == w.kind = "ok"

EngineInit ==
    /\ pc = "idle"
    /\ call = NoCall
    /\ stage = "none"
    /\ datagram = NoDatagram
    /\ buffer = <<>>
    /\ exchanges = <<>>
    /\ result = NoResult
    /\ devSel = AsU32(SI_TYPE)
    /\ intruder = NoIntruder

\* entry of a public call, up to the point where transfer_datagram blocks in
\* transfer_in_place with `buffer = datagram.bytes()`
Enter(c, st, dg) ==
    /\ pc = "idle"
    /\ pc' = "transfer"
    /\ call' = c
    /\ stage' = st
    /\ datagram' = dg
    /\ buffer' = bytes(dg)
    /\ exchanges' = <<>>
    /\ result' = NoResult
    /\ intruder' = NoIntruder
    /\ UNCHANGED devSel

\* Tmc4671::read_register(register)
read_register ==
    /\ pc = "idle"
    /\ \E register \in Registers :
        Enter([op |-> "read_register", register |-> register, data |-> NoValue],
              "read", read_datagram(register))

\* Tmc4671::write_register(register, data)
write_register ==
    /\ pc = "idle"
    /\ \E register \in Registers, data \in Payloads :
        Enter([op |-> "write_register", register |-> register, data |-> data],
              "write", write_datagram(register, data))

\* mutant: the selector goes to CHIPINFO_DATA instead of CHIPINFO_ADDR
get_chip_info_wrong_register ==
    /\ pc = "idle"
    /\ \E info \in CHIP_INFO_ADDRESS :
        Enter([op |-> "get_chip_info", register |-> CHIPINFO_DATA, data |-> AsU32(info)],
              "chipinfo_write", write_datagram(CHIPINFO_DATA, AsU32(info)))

\* Tmc4671::get_chip_info(info): starts with
\* write_register(CHIPINFO_ADDR, info as u32)
get_chip_info ==
    /\ pc = "idle"
    /\ \E info \in CHIP_INFO_ADDRESS :
        Enter([op |-> "get_chip_info", register |-> CHIPINFO_ADDR, data |-> AsU32(info)],
              "chipinfo_write", write_datagram(CHIPINFO_ADDR, AsU32(info)))

\* transfer_in_place returns `spi` (`via` records who answered); the call
\* runs on to its return or to its next transfer_in_place
Resume(spi, via) ==
    LET td == transfer_datagram(datagram, spi)
        ex == [out |-> buffer, ok |-> spi.ok, kind |-> spi.kind,
               in |-> spi.buf, via |-> via, stage |-> stage]
    IN  /\ pc = "transfer"
        /\ exchanges' = Append(exchanges, ex)
        /\ UNCHANGED <<call, intruder>>
        /\ CASE stage = "read" ->
                  /\ result' = read_register_return(td)
                  /\ pc' = "done"
                  /\ buffer' = spi.buf
                  /\ UNCHANGED <<stage, datagram>>
             [] stage = "write" ->
                  /\ result' = write_register_return(td)
                  /\ pc' = "done"
                  /\ buffer' = spi.buf
                  /\ UNCHANGED <<stage, datagram>>
             [] stage = "chipinfo_write" ->
                  LET w == write_register_return(td) IN
                  IF get_chip_info_reads(w)
                  THEN /\ stage' = "chipinfo_read"
                       /\ datagram' = read_datagram(CHIPINFO_DATA)
                       /\ buffer' = bytes(read_datagram(CHIPINFO_DATA))
                       /\ pc' = "transfer"
                       /\ UNCHANGED result
                  ELSE /\ result' = w
                       /\ pc' = "done"
                       /\ buffer' = spi.buf
                       /\ UNCHANGED <<stage, datagram>>
             [] stage = "chipinfo_read" ->
                  /\ result' = read_register_return(td)
                  /\ pc' = "done"
                  /\ buffer' = spi.buf
                  /\ UNCHANGED <<stage, datagram>>

\* the exchange succeeds and the device answers it
TransferDevice ==
    /\ pc = "transfer"
    /\ devSel' = DeviceNextSel(buffer, devSel)
    /\ Resume(SpiOk(DeviceReply(buffer, devSel)), "device")

\* the exchange succeeds and leaves any 5 octets in the buffer
TransferArbitrary ==
    /\ pc = "transfer"
    /\ \E b \in ArbitraryReplies : Resume(SpiOk(b), "any")
    /\ UNCHANGED devSel

\* the exchange fails with a transport error
TransferFail ==
    /\ pc = "transfer"
    /\ \E k \in ErrorKinds : Resume(SpiErr(k), "none")
    /\ UNCHANGED devSel

\* a second user of the same device writes its selector register
OtherUserWrite ==
    \E sel \in CHIP_INFO_ADDRESS :
        /\ devSel' = AsU32(sel)
        /\ intruder' = IF pc = "transfer" /\ stage = "chipinfo_read"
                       THEN [seen |-> TRUE, sel |-> sel]
                       ELSE intruder
        /\ UNCHANGED <<pc, call, stage, datagram, buffer, exchanges, result>>

\* the caller takes the returned value; the engine keeps no state between
\* calls (its only field is spi_device)
Return ==
    /\ pc = "done"
    /\ pc' = "idle"
    /\ call' = NoCall
    /\ stage' = "none"
    /\ datagram' = NoDatagram
    /\ buffer' = <<>>
    /\ exchanges' = <<>>
    /\ result' = NoResult
    /\ intruder' = NoIntruder
    /\ UNCHANGED devSel

EngineNext ==
    \/ read_register
    \/ write_register
    \/ get_chip_info
    \/ TransferDevice
    \/ TransferArbitrary
    \/ TransferFail
    \/ OtherUserWrite
    \/ Return

----------------------------------------------------------------------------
(* Specifications *)

Init == CodecInit /\ EngineInit

CodecStep == CodecNext /\ UNCHANGED engineVars
EngineStep == EngineNext /\ UNCHANGED codecVars

\* the engine against its transport
Next == EngineStep
Spec == Init /\ [][Next]_vars

\* the codec functions on bounded inputs
SpecCodec == Init /\ [][CodecStep]_vars

----------------------------------------------------------------------------
(* Properties *)

\* the u32 held most-significant octet first in b[i] .. b[i+3]
BigEndianAt(b, i) == U32(b[i] * 256 + b[i + 1], b[i + 2] * 256 + b[i + 3])

\* the exchanges of the current call that succeeded, were answered by the
\* device
AllOk == \A i \in 1 .. Len(exchanges) : exchanges[i].ok
AllByDevice == \A i \in 1 .. Len(exchanges) : exchanges[i].via = "device"

\* C1 -- Round trip: for every direction, every address 0 .. 127 and every
\* payload, parse(bytes(frame)) succeeds, consumes the whole input and
\* returns the same direction, address and payload.
C1_RoundTrip ==
    (codecOp = "roundtrip" /\ codecArg.address <= 127) =>
        /\ codecRes.ok
        /\ codecRes.tail = <<>>
        /\ codecRes.datagram.write_not_read = codecArg.write_not_read
        /\ codecRes.datagram.address = codecArg.address
        /\ codecRes.datagram.data = codecArg.data

C1_Witness ==
    /\ codecOp = "roundtrip"
    /\ codecArg = Datagram(TRUE, 127, U32(258, 772))
    /\ codecOut = <<255, 1, 2, 3, 4>>
    /\ codecRes.ok
    /\ codecRes.datagram = codecArg

\* C2 -- Encode layout: for every address 0 .. 127, bytes returns 5 octets;
\* octet 0 has bit 7 set exactly for a write and the address in bits 0-6;
\* octets 1..4 are the payload most-significant octet first (0x01020304
\* gives 1, 2, 3, 4).
C2_EncodeLayout ==
    (codecOp = "bytes" /\ codecArg.address <= 127) =>
        /\ Len(codecOut) = 5
        /\ (codecOut[1] >= 128) <=> codecArg.write_not_read
        /\ codecOut[1] % 128 = codecArg.address
        /\ codecOut[1] \in 0 .. 255
        /\ codecOut[2] * 256 + codecOut[3] = codecArg.data.hi
        /\ codecOut[4] * 256 + codecOut[5] = codecArg.data.lo
        /\ \A i \in 2 .. 5 : codecOut[i] \in 0 .. 255
        /\ codecArg.data = U32(258, 772) => SubSeq(codecOut, 2, 5) = <<1, 2, 3, 4>>

C2_Witness ==
    /\ codecOp = "bytes"
    /\ codecArg = Datagram(TRUE, 5, U32(258, 772))
    /\ codecOut = <<133, 1, 2, 3, 4>>

\* C3 -- Decode length rule: parse fails on every input of length 0 .. 4 and
\* succeeds on every input of length 5 or more; the decoded frame is a
\* function of the first 5 octets only.
C3_DecodeLength ==
    codecOp = "parse" =>
        /\ Len(codecArg) < 5 => ~codecRes.ok
        /\ Len(codecArg) >= 5 =>
              /\ codecRes.ok
              /\ codecRes.datagram =
                     Datagram(codecArg[1] >= 128, codecArg[1] % 128,
                              BigEndianAt(codecArg, 2))

C3_Witness ==
    /\ codecOp = "parse"
    /\ codecArg = <<128, 0, 0, 0, 1, 255>>
    /\ codecRes.ok
    /\ codecRes.datagram = Datagram(TRUE, 0, U32(0, 1))

\* C4 -- read_register(A) performs exactly one exchange, sending
\* Encode(Read, A, 0); when the exchange succeeds it returns the big-endian
\* value of octets 1..4 of the reply.
C4_ReadRegister ==
    call.op = "read_register" =>
        /\ Len(exchanges) <= 1
        /\ pc = "done" =>
              /\ Len(exchanges) = 1
              /\ exchanges[1].out = bytes(Datagram(FALSE, call.register, AsU32(0)))
              /\ call.register <= 127 =>
                     exchanges[1].out = <<call.register, 0, 0, 0, 0>>
              /\ exchanges[1].ok =>
                     result = Ok(BigEndianAt(exchanges[1].in, 2))

C4_Witness ==
    /\ pc = "done"
    /\ call.op = "read_register"
    /\ call.register = 126
    /\ Len(exchanges) = 1
    /\ exchanges[1].out = <<126, 0, 0, 0, 0>>
    /\ exchanges[1].ok
    /\ exchanges[1].in = <<255, 1, 2, 3, 4>>
    /\ result = Ok(U32(258, 772))

\* C5 -- get_chip_info(field), when both exchanges succeed, issues exactly
\* two: a Write frame to CHIPINFO_ADDR (0x01) carrying field's code, then a
\* Read frame to CHIPINFO_DATA (0x00) with payload 0, and returns the payload
\* of the second reply; against the device, with no other transaction in
\* between, that is the device's value for field.
C5_GetChipInfo ==
    call.op = "get_chip_info" =>
        /\ Len(exchanges) <= 2
        /\ Len(exchanges) >= 1 =>
              exchanges[1].out = <<129, 0, 0, 0, call.data.lo>>
        /\ Len(exchanges) = 2 =>
              /\ exchanges[1].ok
              /\ exchanges[2].out = <<0, 0, 0, 0, 0>>
        /\ (pc = "done" /\ AllOk) =>
              /\ Len(exchanges) = 2
              /\ result = Ok(BigEndianAt(exchanges[2].in, 2))
              /\ (AllByDevice /\ ~intruder.seen) =>
                     result = Ok(DeviceValue(call.data))

C5_Witness ==
    /\ pc = "done"
    /\ call.op = "get_chip_info"
    /\ call.data = AsU32(SI_DATE)
    /\ Len(exchanges) = 2
    /\ AllOk
    /\ AllByDevice
    /\ ~intruder.seen
    /\ result = Ok(U32(8210, 4661))

\* C6 -- Transport-failure propagation: a failed exchange is the last one of
\* its call (no retry, no second exchange of get_chip_info) and the call
\* returns CommunicationError carrying the transport's failure kind.
C6_FailurePropagation ==
    \A i \in 1 .. Len(exchanges) :
        ~exchanges[i].ok =>
            /\ i = Len(exchanges)
            /\ pc = "done"
            /\ result = CommunicationError(exchanges[i].kind)

C6_Witness ==
    /\ pc = "done"
    /\ call.op = "get_chip_info"
    /\ Len(exchanges) = 1
    /\ ~exchanges[1].ok
    /\ exchanges[1].kind = "ModeFault"
    /\ result = CommunicationError("ModeFault")

\* C7 -- write_register(A, V) performs exactly one exchange, sending
\* Encode(Write, A, V); its result depends only on whether the exchange
\* succeeded, not on the reply.
C7_WriteRegister ==
    call.op = "write_register" =>
        /\ Len(exchanges) <= 1
        /\ pc = "done" =>
              /\ Len(exchanges) = 1
              /\ exchanges[1].out = bytes(Datagram(TRUE, call.register, call.data))
              /\ call.register <= 127 =>
                     exchanges[1].out =
                         <<128 + call.register,
                           call.data.hi \div 256, call.data.hi % 256,
                           call.data.lo \div 256, call.data.lo % 256>>
              /\ exchanges[1].ok => result = Ok(NoValue)

C7_Witness ==
    /\ pc = "done"
    /\ call.op = "write_register"
    /\ call.register = 3
    /\ call.data = U32(258, 772)
    /\ Len(exchanges) = 1
    /\ exchanges[1].out = <<131, 1, 2, 3, 4>>
    /\ exchanges[1].ok
    /\ exchanges[1].in = <<0, 255, 255, 255, 255>>
    /\ result = Ok(NoValue)

\* C8 -- get_chip_info is not atomic: when a second user writes the selector
\* register between its two exchanges, the call still succeeds and returns
\* the device's value for the second user's selector.
C8_NotAtomic ==
    ( /\ pc = "done"
      /\ call.op = "get_chip_info"
      /\ Len(exchanges) = 2
      /\ AllOk
      /\ AllByDevice
      /\ intruder.seen ) =>
        result = Ok(DeviceValue(AsU32(intruder.sel)))

C8_Witness ==
    /\ pc = "done"
    /\ call.op = "get_chip_info"
    /\ call.data = AsU32(SI_TYPE)
    /\ Len(exchanges) = 2
    /\ AllOk
    /\ AllByDevice
    /\ intruder = [seen |-> TRUE, sel |-> SI_VARIANT]
    /\ result = Ok(U32(0, 7))
    /\ result # Ok(DeviceValue(call.data))

\* C9 -- Direction bit on the wire: for every register 0 .. 255, bit 7 of
\* outgoing octet 0 is set if and only if the operation is a write; no
\* read_register puts a frame with the write bit set on the bus.
C9_DirectionBit ==
    \A i \in 1 .. Len(exchanges) :
        (exchanges[i].out[1] >= 128) <=>
            (exchanges[i].stage \in {"write", "chipinfo_write"})

\* C10 -- A successful exchange yields a successful read_register or
\* write_register whatever 5 octets the reply holds: never ParseError, also
\* when the reply's address or direction differ from the request's.
C10_SuccessAlways ==
    ( /\ pc = "done"
      /\ call.op \in {"read_register", "write_register"}
      /\ Len(exchanges) = 1
      /\ exchanges[1].ok ) =>
        result.kind = "ok"

C10_Witness ==
    /\ pc = "done"
    /\ call.op = "read_register"
    /\ call.register = 1
    /\ Len(exchanges) = 1
    /\ exchanges[1].ok
    /\ exchanges[1].in = <<255, 0, 0, 0, 1>>
    /\ result = Ok(U32(0, 1))

====
